---- MODULE Spec2Model ----
(***************************************************************************)
(* Model of halmos/analyze_out.py: the typed value formatter format_value, *)
(* the selector table decode_selector, and the reporting pass              *)
(* analyze_halmos_output.                                                  *)
(*                                                                         *)
(* A Python str is a sequence of one-character strings.  A Python int is   *)
(* unbounded: a non-negative int is a sequence of base-16 digits, least    *)
(* significant first, with no leading zero digit (zero is << >>), and a    *)
(* signed int is a record [neg, mag].                                      *)
(***************************************************************************)
EXTENDS Integers, Sequences, FiniteSets, TLC

VARIABLES
    value,          \* format_value: the raw value (base-16 digits)
    solidity_type,  \* format_value: the type tag
    var_name,       \* format_value: the display name
    result,         \* format_value: what the call produced
    fpc,            \* "call" before format_value ran, "ret" after
    model,          \* one model's typed values, in document order
    printed,        \* what lines 70-110 did with them: [err, lines]
    bpc,            \* "call" before lines 70-110 ran, "ret" after
    rpc,            \* analyze_halmos_output: where the pass is
    contract,       \* the key of data["test_results"] being reported
    ncontracts,     \* how many contracts the outer loop has taken
    ntests,         \* how many tests of this contract the loop has taken
    test,           \* the test record being reported
    index,          \* i, the enumerate() index of the next model
    out             \* stdout: the header line of the current contract and
                    \* the lines of the current test (the program never
                    \* reads stdout back, earlier lines are not kept)

fvars == <<value, solidity_type, var_name, result, fpc>>
bvars == <<model, printed, bpc>>
rvars == <<rpc, contract, ncontracts, ntests, test, index, out>>
vars == <<fvars, bvars, rvars>>

(***************************************************************************)
(* Bounds of the model.                                                    *)
(***************************************************************************)
\* raw values 0..MaxValue are enumerated (besides the large ones below)
MaxValue == 40
\* the tags int<w> and uint<w> are enumerated for w in 1..MaxWidth
MaxWidth == 5
\* a model holds at most MaxVars typed values
MaxVars == 3
\* a report holds at most MaxContracts contracts, each at most MaxTests tests,
\* each at most MaxModels models
MaxContracts == 2
MaxTests == 2
MaxModels == 2

(***************************************************************************)
(* Characters and strings.                                                 *)
(***************************************************************************)
\* The characters the model uses, in code point order (str comparison).
CharOrder ==
    <<" ", "(", ")", "+", "-", ".",
      "0", "1", "2", "3", "4", "5", "6", "7", "8", "9", "=",
      "A", "B", "C", "D", "E", "F", "G", "H", "I", "J", "K", "L", "M",
      "N", "O", "P", "Q", "R", "S", "T", "U", "V", "W", "X", "Y", "Z",
      "[", "]", "_",
      "a", "b", "c", "d", "e", "f", "g", "h", "i", "j", "k", "l", "m",
      "n", "o", "p", "q", "r", "s", "t", "u", "v", "w", "x", "y", "z">>

Ord(c) == CHOOSE i \in 1..Len(CharOrder) : CharOrder[i] = c

HexDigits == <<"0", "1", "2", "3", "4", "5", "6", "7", "8", "9",
               "a", "b", "c", "d", "e", "f">>

DecDigits == <<"0", "1", "2", "3", "4", "5", "6", "7", "8", "9">>

IsDigit(c) == \E i \in 1..10 : DecDigits[i] = c

DigitVal(c) == (CHOOSE i \in 1..10 : DecDigits[i] = c) - 1

\* prefix.startswith / `sub in s` / s.replace(sub, "")
StartsWith(s, prefix) ==
    /\ Len(prefix) <= Len(s)
    /\ SubSeq(s, 1, Len(prefix)) = prefix

Contains(s, sub) ==
    \E i \in 1..(Len(s) - Len(sub) + 1) : SubSeq(s, i, i + Len(sub) - 1) = sub

RECURSIVE Remove(_, _)
Remove(s, sub) ==
    IF s = << >> THEN << >>
    ELSE IF StartsWith(s, sub)
         THEN Remove(SubSeq(s, Len(sub) + 1, Len(s)), sub)
         ELSE <<Head(s)>> \o Remove(Tail(s), sub)

\* Lexicographic order of two strings by code point (str.__lt__).
RECURSIVE StrLess(_, _)
StrLess(a, b) ==
    IF b = << >> THEN FALSE
    ELSE IF a = << >> THEN TRUE
    ELSE IF Head(a) = Head(b) THEN StrLess(Tail(a), Tail(b))
    ELSE Ord(Head(a)) < Ord(Head(b))

(***************************************************************************)
(* Unbounded integers: digits in base 65536, least significant first.      *)
(***************************************************************************)
RECURSIVE Norm(_)
Norm(s) ==
    IF s = << >> THEN << >>
    ELSE IF s[Len(s)] = 0 THEN Norm(SubSeq(s, 1, Len(s) - 1))
    ELSE s

RECURSIVE FromNat(_)
FromNat(n) == IF n = 0 THEN << >> ELSE <<n % 65536>> \o FromNat(n \div 65536)

\* a < b on magnitudes
RECURSIVE MagLess(_, _)
MagLess(a, b) ==
    IF Len(a) # Len(b) THEN Len(a) < Len(b)
    ELSE IF a = << >> THEN FALSE
    ELSE IF a[Len(a)] # b[Len(b)] THEN a[Len(a)] < b[Len(b)]
    ELSE MagLess(SubSeq(a, 1, Len(a) - 1), SubSeq(b, 1, Len(b) - 1))

RECURSIVE AddC(_, _, _)
AddC(a, b, c) ==
    IF a = << >> /\ b = << >> THEN (IF c = 0 THEN << >> ELSE <<c>>)
    ELSE LET x == IF a = << >> THEN 0 ELSE Head(a)
             y == IF b = << >> THEN 0 ELSE Head(b)
             ta == IF a = << >> THEN << >> ELSE Tail(a)
             tb == IF b = << >> THEN << >> ELSE Tail(b)
             t == x + y + c
         IN  <<t % 65536>> \o AddC(ta, tb, t \div 65536)

MagAdd(a, b) == AddC(a, b, 0)

\* a - b for a >= b, digit by digit with borrow
RECURSIVE SubB(_, _, _)
SubB(a, b, c) ==
    IF a = << >> THEN << >>
    ELSE LET y == IF b = << >> THEN 0 ELSE Head(b)
             tb == IF b = << >> THEN << >> ELSE Tail(b)
             t == Head(a) - y - c
         IN  IF t < 0 THEN <<t + 65536>> \o SubB(Tail(a), tb, 1)
             ELSE <<t>> \o SubB(Tail(a), tb, 0)

MagSub(a, b) == Norm(SubB(a, b, 0))

\* 2 ** k for k >= 0
Pow2(k) == [j \in 1..(k \div 16) |-> 0] \o <<2 ^ (k % 16)>>

\* int - int
IntSub(a, b) ==
    IF MagLess(a, b) THEN [neg |-> TRUE, mag |-> MagSub(b, a)]
    ELSE [neg |-> FALSE, mag |-> MagSub(a, b)]

\* divmod(mag, d) for a small divisor d
RECURSIVE DivMod(_, _)
DivMod(s, d) ==
    IF s = << >> THEN [q |-> << >>, r |-> 0]
    ELSE LET hi == DivMod(Tail(s), d)
             cur == 65536 * hi.r + Head(s)
         IN  [q |-> <<cur \div d>> \o hi.q, r |-> cur % d]

\* four digits of n < base ^ 4 in a base of at most 16, with or without the
\* leading zeros
Digits4(n, base, padded) ==
    LET d == [k \in 1..4 |-> HexDigits[((n \div (base ^ (4 - k))) % base) + 1]]
        lead == IF n >= base ^ 3 THEN 1 ELSE IF n >= base ^ 2 THEN 2
                ELSE IF n >= base THEN 3 ELSE IF n >= 1 THEN 4 ELSE 5
    IN  IF padded THEN d ELSE SubSeq(d, lead, 4)

\* the decimal digits of a magnitude (<< >> for zero)
RECURSIVE DecOf(_)
DecOf(m) ==
    IF m = << >> THEN << >>
    ELSE LET d == DivMod(m, 10000)
             q == Norm(d.q)
         IN  IF q = << >> THEN Digits4(d.r, 10, FALSE)
             ELSE DecOf(q) \o Digits4(d.r, 10, TRUE)

\* str(n) of an int
Str(n) ==
    IF n.mag = << >> THEN <<"0">>
    ELSE (IF n.neg THEN <<"-">> ELSE << >>) \o DecOf(n.mag)

\* the hex digits of a magnitude (<< >> for zero)
RECURSIVE HexRaw(_)
HexRaw(m) ==
    IF m = << >> THEN << >>
    ELSE IF Len(m) = 1 THEN Digits4(m[1], 16, FALSE)
    ELSE HexRaw(Tail(m)) \o Digits4(Head(m), 16, TRUE)

\* f"{v:0<width>x}" of a non-negative int: lowercase hex, zero-padded on the
\* left to at least `width` digits
HexOf(m, width) ==
    LET h == HexRaw(m)
        pad == IF width > Len(h) THEN width - Len(h) ELSE 0
    IN  [j \in 1..pad |-> "0"] \o h

(***************************************************************************)
(* int(s): optional surrounding whitespace, an optional sign, then decimal *)
(* digits, single underscores allowed between digits.  [ok, neg, n].       *)
(***************************************************************************)
RECURSIVE LStrip(_)
LStrip(s) == IF s # << >> /\ Head(s) = " " THEN LStrip(Tail(s)) ELSE s

RECURSIVE RStrip(_)
RStrip(s) ==
    IF s # << >> /\ s[Len(s)] = " " THEN RStrip(SubSeq(s, 1, Len(s) - 1)) ELSE s

IntLiteralBody(b) ==
    /\ b # << >>
    /\ \A i \in 1..Len(b) :
          \/ IsDigit(b[i])
          \/ /\ b[i] = "_"
             /\ 1 < i
             /\ i < Len(b)
             /\ IsDigit(b[i - 1])
             /\ IsDigit(b[i + 1])

RECURSIVE DigitsValue(_, _)
DigitsValue(b, acc) ==
    IF b = << >> THEN acc
    ELSE IF Head(b) = "_" THEN DigitsValue(Tail(b), acc)
    ELSE DigitsValue(Tail(b), 10 * acc + DigitVal(Head(b)))

PyInt(s) ==
    LET t == RStrip(LStrip(s))
        signed == t # << >> /\ Head(t) \in {"+", "-"}
        body == IF signed THEN Tail(t) ELSE t
    IN  IF IntLiteralBody(body)
        THEN [ok |-> TRUE, neg |-> signed /\ Head(t) = "-",
              n |-> DigitsValue(body, 0)]
        ELSE [ok |-> FALSE, neg |-> FALSE, n |-> 0]

\* str(value - 2.0 ** -k) for an int value >= 1 and k >= 1, where the float
\* subtraction is exact and repr prints the exact expansion: the integer
\* part value - 1, a point, and the k digits of 1 - 2 ** -k.
FloatStr(v, k) ==
    Str([neg |-> FALSE, mag |-> MagSub(v, <<1>>)])
        \o <<".">> \o DecOf(FromNat((2 ^ k - 1) * 5 ^ k))

(***************************************************************************)
(* decode_selector and format_value.                                       *)
(***************************************************************************)
selectors ==
    << [key |-> <<"0", "x", "b", "b", "4", "f", "c", "5", "8", "5">>,
        name |-> <<"o", "p", "e", "n", "M", "a", "k", "e", "r",
                   "P", "o", "s", "i", "t", "i", "o", "n">>],
       [key |-> <<"0", "x", "5", "7", "c", "e", "6", "5", "4", "7">>,
        name |-> <<"o", "p", "e", "n", "T", "a", "k", "e", "r",
                   "P", "o", "s", "i", "t", "i", "o", "n">>],
       [key |-> <<"0", "x", "e", "c", "f", "6", "e", "c", "a", "0">>,
        name |-> <<"a", "d", "d", "M", "a", "r", "g", "i", "n">>],
       [key |-> <<"0", "x", "d", "9", "1", "f", "6", "6", "f", "8">>,
        name |-> <<"c", "l", "o", "s", "e", "P", "o", "s", "i", "t", "i", "o", "n">>],
       [key |-> <<"0", "x", "6", "b", "b", "0", "0", "f", "f", "2">>,
        name |-> <<"i", "n", "c", "r", "e", "a", "s", "e", "C", "a", "r", "d", "i",
                   "n", "a", "l", "i", "t", "y", "C", "a", "p">>] >>

decode_selector(selector_bytes) ==
    LET key == SubSeq(selector_bytes, 1,
                      IF Len(selector_bytes) < 10 THEN Len(selector_bytes) ELSE 10)
    IN  IF \E i \in 1..Len(selectors) : selectors[i].key = key
        THEN selectors[CHOOSE i \in 1..Len(selectors) : selectors[i].key = key].name
        ELSE selector_bytes

T_address == <<"a", "d", "d", "r", "e", "s", "s">>
T_bytes32 == <<"b", "y", "t", "e", "s", "3", "2">>
T_bytes4 == <<"b", "y", "t", "e", "s", "4">>
T_bool == <<"b", "o", "o", "l">>
S_uint == <<"u", "i", "n", "t">>
S_int == <<"i", "n", "t">>
N_selector == <<"s", "e", "l", "e", "c", "t", "o", "r">>

Returned(s) == [err |-> FALSE, str |-> s]
ValueError == [err |-> TRUE, str |-> << >>]

\* SignedBranch with `>` for `>=` on line 35
SignedBranchStrict(v, tag) ==
    LET p == PyInt(Remove(tag, S_int))
        nonneg == [neg |-> FALSE, mag |-> v]
    IN  IF ~p.ok THEN ValueError
        ELSE IF ~p.neg /\ p.n >= 1
        THEN IF MagLess(Pow2(p.n - 1), v)
             THEN Returned(Str(IntSub(v, Pow2(p.n))))
             ELSE Returned(Str(nonneg))
        ELSE IF v # << >>
        THEN Returned(IF p.n = 0 THEN Str(IntSub(v, <<1>>)) ELSE FloatStr(v, p.n))
        ELSE Returned(Str(nonneg))

\* SignedBranch with a fallback for a width int() rejects: the raw value
SignedBranchFallback(v, tag) ==
    LET p == PyInt(Remove(tag, S_int))
        nonneg == [neg |-> FALSE, mag |-> v]
    IN  IF ~p.ok THEN Returned(Str(nonneg))
        ELSE IF ~p.neg /\ p.n >= 1
        THEN IF ~MagLess(v, Pow2(p.n - 1))
             THEN Returned(Str(IntSub(v, Pow2(p.n))))
             ELSE Returned(Str(nonneg))
        ELSE IF v # << >>
        THEN Returned(IF p.n = 0 THEN Str(IntSub(v, <<1>>)) ELSE FloatStr(v, p.n))
        ELSE Returned(Str(nonneg))

\* lines 33-37: the signed branch
SignedBranch(v, tag) ==
    LET p == PyInt(Remove(tag, S_int))
        nonneg == [neg |-> FALSE, mag |-> v]
    IN  IF ~p.ok THEN ValueError
        ELSE IF ~p.neg /\ p.n >= 1
        THEN \* value >= 2 ** (bit_size - 1), both ints
             IF ~MagLess(v, Pow2(p.n - 1))
             THEN Returned(Str(IntSub(v, Pow2(p.n))))
             ELSE Returned(Str(nonneg))
        ELSE IF p.n = 0
        THEN \* 2 ** -1 is the float 0.5, 2 ** 0 the int 1
             IF v # << >>
             THEN Returned(Str(IntSub(v, <<1>>)))
             ELSE Returned(Str(nonneg))
        ELSE \* bit_size < 0: both powers are floats in (0, 1)
             IF v # << >>
             THEN Returned(FloatStr(v, p.n))
             ELSE Returned(Str(nonneg))

\* format_value with the tests of lines 31 and 33 in the other order
format_value_int_first(v, tag, name) ==
    IF tag = T_address THEN Returned(<<"0", "x">> \o HexOf(v, 40))
    ELSE IF tag = T_bytes32 THEN Returned(<<"0", "x">> \o HexOf(v, 64))
    ELSE IF tag = T_bytes4
    THEN LET selector_hex == <<"0", "x">> \o HexOf(v, 8)
         IN  IF name = N_selector
             THEN Returned(selector_hex \o <<" ", "(">>
                               \o decode_selector(selector_hex) \o <<")">>)
             ELSE Returned(selector_hex)
    ELSE IF tag = T_bool
    THEN Returned(IF v = <<1>> THEN <<"t", "r", "u", "e">>
                  ELSE <<"f", "a", "l", "s", "e">>)
    ELSE IF Contains(tag, S_int) THEN SignedBranch(v, tag)
    ELSE Returned(Str([neg |-> FALSE, mag |-> v]))

format_value(v, tag, name) ==
    IF tag = T_address THEN Returned(<<"0", "x">> \o HexOf(v, 40))
    ELSE IF tag = T_bytes32 THEN Returned(<<"0", "x">> \o HexOf(v, 64))
    ELSE IF tag = T_bytes4
    THEN LET selector_hex == <<"0", "x">> \o HexOf(v, 8)
         IN  IF name = N_selector
             THEN Returned(selector_hex \o <<" ", "(">>
                               \o decode_selector(selector_hex) \o <<")">>)
             ELSE Returned(selector_hex)
    ELSE IF tag = T_bool
    THEN Returned(IF v = <<1>> THEN <<"t", "r", "u", "e">>
                  ELSE <<"f", "a", "l", "s", "e">>)
    ELSE IF Contains(tag, S_uint) THEN Returned(Str([neg |-> FALSE, mag |-> v]))
    ELSE IF Contains(tag, S_int) THEN SignedBranch(v, tag)
    ELSE Returned(Str([neg |-> FALSE, mag |-> v]))

(***************************************************************************)
(* The inputs format_value is applied to.                                  *)
(***************************************************************************)
HexVal(c) == (CHOOSE j \in 1..16 : HexDigits[j] = c) - 1

RECURSIVE HexNat(_, _)
HexNat(h, acc) == IF h = << >> THEN acc ELSE HexNat(Tail(h), 16 * acc + HexVal(Head(h)))

\* the int a string of hex digits denotes
RECURSIVE FromHexRaw(_)
FromHexRaw(h) ==
    IF h = << >> THEN << >>
    ELSE LET n == Len(h)
             cut == IF n > 4 THEN n - 4 ELSE 0
         IN  <<HexNat(SubSeq(h, cut + 1, n), 0)>> \o FromHexRaw(SubSeq(h, 1, cut))

FromHex(h) == Norm(FromHexRaw(h))

SmallValues == {FromNat(n) : n \in 0..MaxValue}

SelectorValues == {FromHex(SubSeq(selectors[i].key, 3, 10)) : i \in 1..Len(selectors)}

LargeValues ==
    SelectorValues \cup
    { FromHex(<<"1", "2", "3", "4", "5", "6", "7", "8">>),
      FromHex(<<"b", "b", "4", "f", "c", "5", "8", "4">>),
      Pow2(32),
      MagAdd(Pow2(32), FromHex(<<"5", "7", "c", "e", "6", "5", "4", "7">>)),
      Pow2(7), MagSub(Pow2(8), <<1>>), Pow2(8), MagAdd(Pow2(8), Pow2(7)),
      MagSub(Pow2(255), <<1>>), Pow2(255), MagSub(Pow2(256), <<1>>),
      Pow2(256), MagAdd(Pow2(256), Pow2(255)) }

Values == SmallValues \cup LargeValues

IntTag(w) == S_int \o DecOf(FromNat(w))
UintTag(w) == S_uint \o DecOf(FromNat(w))

Widths == (1..MaxWidth) \cup {8, 256}

OddTags ==
    { S_int, S_uint,
      <<"u", "n", "k", "n", "o", "w", "n">>,
      <<"s", "t", "r", "i", "n", "g">>,
      <<"i", "n", "t", "2", "5", "6", "[", "]">>,
      <<"i", "n", "t", "-", "8">>,
      <<"i", "n", "t", "-", "1">>,
      <<"i", "n", "t", " ", "2", "5", "6">>,
      <<"i", "n", "t", "+", "8">>,
      <<"i", "n", "t", "1", "_", "6">>,
      <<"i", "n", "t", "_", "8">>,
      <<"i", "n", "t", "0">>,
      <<"p", "o", "i", "n", "t", "8">>,
      <<"i", "n", "t", "i", "n", "t", "8">>,
      <<"u", "i", "n", "t", "8", "[", "]">>,
      <<"u", "i", "n", "t", "-", "8">> }

Tags ==
    {T_address, T_bytes32, T_bytes4, T_bool}
        \cup {IntTag(w) : w \in Widths} \cup {UintTag(w) : w \in Widths}
        \cup OddTags

DisplayNamesF == {N_selector, <<"x">>, << >>}

\* the tag reaches line 33
SignedTag(tag) ==
    /\ tag \notin {T_address, T_bytes32, T_bytes4, T_bool}
    /\ ~Contains(tag, S_uint)
    /\ Contains(tag, S_int)

\* a signed tag with a negative width: line 36 subtracts a float
FloatTag(tag) ==
    /\ SignedTag(tag)
    /\ PyInt(Remove(tag, S_int)).ok
    /\ PyInt(Remove(tag, S_int)).neg
    /\ PyInt(Remove(tag, S_int)).n >= 1

(***************************************************************************)
(* The reporting pass: one counterexample model (lines 70-110).            *)
(*                                                                         *)
(* A dict is the sequence of its items [key, val] in insertion order.  A   *)
(* typed value is an item of model["model"]: var_name is its key, and each *)
(* field of var_data may be absent (has_* false).                          *)
(***************************************************************************)
S_unknown == <<"u", "n", "k", "n", "o", "w", "n">>

\* d[k] = v
Put(d, k, v) ==
    IF \E j \in 1..Len(d) : d[j].key = k
    THEN [j \in 1..Len(d) |-> IF d[j].key = k THEN [key |-> k, val |-> v] ELSE d[j]]
    ELSE Append(d, [key |-> k, val |-> v])

\* sorted(d.items()): the items in ascending order of key
RECURSIVE InsertSorted(_, _)
InsertSorted(e, s) ==
    IF s = << >> THEN <<e>>
    ELSE IF StrLess(e.key, Head(s).key) THEN <<e>> \o s
    ELSE <<Head(s)>> \o InsertSorted(e, Tail(s))

\* Sorted without the sort: the items in insertion order
Unsorted(d) == d

RECURSIVE Sorted(_)
Sorted(d) ==
    IF d = << >> THEN << >> ELSE InsertSorted(d[Len(d)], Sorted(SubSeq(d, 1, Len(d) - 1)))

\* var_data.get(...) with the defaults of lines 75-77
DisplayName(e) == IF e.has_name THEN e.variable_name ELSE e.var_name
TypeOf(e) == IF e.has_type THEN e.solidity_type ELSE S_unknown
ValueOf(e) == IF e.has_value THEN e.value ELSE << >>

\* BucketOf with the substring rule tried before the two prefix rules
BucketOfSubstringFirst(display_name) ==
    IF \E x \in {<<"m", "a", "k", "e", "r">>, <<"t", "a", "k", "e", "r">>,
                 <<"c", "r", "e", "a", "t", "o", "r">>,
                 <<"l", "i", "q", "u", "i", "d", "a", "t", "o", "r">>} :
           Contains(display_name, x)
    THEN IF \/ Contains(display_name, <<"m", "a", "k", "e", "r", ".">>)
            \/ Contains(display_name, <<"t", "a", "k", "e", "r", ".">>)
         THEN [bucket |-> "params", key |-> display_name]
         ELSE [bucket |-> "state", key |-> display_name]
    ELSE IF StartsWith(display_name, <<"p", "_">>)
    THEN [bucket |-> "params", key |-> SubSeq(display_name, 3, Len(display_name))]
    ELSE IF StartsWith(display_name, <<"b", "l", "o", "c", "k", ".">>)
    THEN [bucket |-> "state", key |-> display_name]
    ELSE [bucket |-> "other", key |-> display_name]

\* lines 82-95: the bucket a display name goes to, and its key there
BucketOf(display_name) ==
    IF StartsWith(display_name, <<"p", "_">>)
    THEN [bucket |-> "params", key |-> SubSeq(display_name, 3, Len(display_name))]
    ELSE IF StartsWith(display_name, <<"b", "l", "o", "c", "k", ".">>)
    THEN [bucket |-> "state", key |-> display_name]
    ELSE IF \E x \in {<<"m", "a", "k", "e", "r">>, <<"t", "a", "k", "e", "r">>,
                      <<"c", "r", "e", "a", "t", "o", "r">>,
                      <<"l", "i", "q", "u", "i", "d", "a", "t", "o", "r">>} :
                Contains(display_name, x)
    THEN IF \/ Contains(display_name, <<"m", "a", "k", "e", "r", ".">>)
            \/ Contains(display_name, <<"t", "a", "k", "e", "r", ".">>)
         THEN [bucket |-> "params", key |-> display_name]
         ELSE [bucket |-> "state", key |-> display_name]
    ELSE [bucket |-> "other", key |-> display_name]

EmptyBuckets == [err |-> FALSE, params |-> << >>, state |-> << >>, other |-> << >>]

\* lines 74-95: the loop over model["model"].items(); err when format_value
\* raised, which ends the loop
RECURSIVE Collect(_, _)
Collect(entries, acc) ==
    IF entries = << >> THEN acc
    ELSE LET e == Head(entries)
             formatted_value == format_value(ValueOf(e), TypeOf(e), DisplayName(e))
             b == BucketOf(DisplayName(e))
             v == [formatted |-> formatted_value.str, type |-> TypeOf(e)]
         IN  IF formatted_value.err THEN [acc EXCEPT !.err = TRUE]
             ELSE Collect(Tail(entries),
                    IF b.bucket = "params"
                    THEN [acc EXCEPT !.params = Put(acc.params, b.key, v)]
                    ELSE IF b.bucket = "state"
                    THEN [acc EXCEPT !.state = Put(acc.state, b.key, v)]
                    ELSE [acc EXCEPT !.other = Put(acc.other, b.key, v)])

\* the lines print() writes
HeaderLine(title) == [kind |-> "bucket", title |-> title]
EntryLine(item) ==
    [kind |-> "entry", name |-> item.key, value |-> item.val.formatted,
     sol_type |-> item.val.type]

\* lines 97-110: one bucket, if it is not empty
PrintBucket(title, d) ==
    IF d = << >> THEN << >>
    ELSE <<HeaderLine(title)>> \o [j \in 1..Len(d) |-> EntryLine(Sorted(d)[j])]

\* lines 70-110 for one valid model: [err, lines]
ProcessModel(entries) ==
    LET acc == Collect(entries, EmptyBuckets)
    IN  IF acc.err THEN [err |-> TRUE, lines |-> << >>]
        ELSE [err |-> FALSE,
              lines |-> PrintBucket("Parameters", acc.params)
                            \o PrintBucket("State", acc.state)
                            \o PrintBucket("Other", acc.other)]

(***************************************************************************)
(* The documents the pass is given.                                        *)
(***************************************************************************)
T_int8 == <<"i", "n", "t", "8">>
T_uint8 == <<"u", "i", "n", "t", "8">>

VarKey(k) == <<"v">> \o DecOf(FromNat(k))

TypedValue(k, has_name, name, tag, v) ==
    [var_name |-> VarKey(k), has_name |-> has_name, variable_name |-> name,
     has_type |-> TRUE, solidity_type |-> tag, has_value |-> TRUE, value |-> v]

DisplayNames ==
    { <<"p", "_", "a", "m", "o", "u", "n", "t">>,
      <<"p", "_", "m", "a", "k", "e", "r", ".", "x">>,
      <<"b", "l", "o", "c", "k", ".", "t", "i", "m", "e", "s", "t", "a", "m", "p">>,
      <<"b", "l", "o", "c", "k", ".", "m", "a", "k", "e", "r">>,
      <<"m", "a", "k", "e", "r", ".", "b", "a", "l", "a", "n", "c", "e">>,
      <<"m", "a", "k", "e", "r", ".", "x">>,
      <<"t", "a", "k", "e", "r", ".", "x">>,
      <<"c", "r", "e", "a", "t", "o", "r">>,
      <<"l", "i", "q", "u", "i", "d", "a", "t", "o", "r", "F", "e", "e">>,
      <<"r", "a", "n", "d", "o", "m", "F", "l", "a", "g">>,
      <<"x">>,
      <<"a", "m", "o", "u", "n", "t">>,
      <<"x", "p", "_", "a">> }

\* a display name, or none (<<FALSE>>): the key var_name is shown then
NameChoices == {<<TRUE, n>> : n \in DisplayNames} \cup {<<FALSE, << >> >>}

\* the k-th typed value of the model BucketModel(n, f): an int8 whose raw value
\* tells the positions apart
BucketValue(k, choice) ==
    TypedValue(k, choice[1], choice[2], T_int8, FromNat(27 + 100 * (k % 2)))

BucketModel(n, f) == [k \in 1..n |-> BucketValue(k, f[k])]

\* the contents of the models of the reports
GoodContent ==
    << TypedValue(1, TRUE, <<"p", "_", "a", "m", "o", "u", "n", "t">>, T_uint8, FromNat(5)),
       TypedValue(2, TRUE, <<"m", "a", "k", "e", "r">>, T_int8, FromNat(200)),
       \* a value with no solidity_type and no value
       [TypedValue(3, TRUE, <<"b", "l", "o", "c", "k", ".", "x">>, << >>, << >>)
          EXCEPT !.has_type = FALSE, !.has_value = FALSE] >>

\* signed tags with no width at all
NoWidthContent == << TypedValue(1, TRUE, <<"x">>, S_int, FromNat(1)) >>

BracketContent ==
    << TypedValue(1, TRUE, <<"m", "a", "k", "e", "r", ".", "x">>, T_int8, FromNat(3)),
       TypedValue(2, FALSE, << >>, <<"i", "n", "t", "2", "5", "6", "[", "]">>, FromNat(3)),
       TypedValue(3, TRUE, <<"x">>, T_uint8, FromNat(1)) >>

\* signed tags with a sign or a space before the digits
SignContent ==
    << TypedValue(1, TRUE, <<"x">>, <<"i", "n", "t", "-", "8">>, FromNat(3)),
       TypedValue(2, TRUE, <<"p", "_", "x">>, <<"i", "n", "t", " ", "2", "5", "6">>,
                  Pow2(255)) >>

Contents == {GoodContent, NoWidthContent, BracketContent, SignContent}

\* a model: is_valid true, false or absent
Models ==
    { [has_valid |-> TRUE, is_valid |-> TRUE, model |-> c] : c \in Contents }
        \cup { [has_valid |-> hv, is_valid |-> FALSE, model |-> c] :
                 hv \in BOOLEAN, c \in {GoodContent, NoWidthContent} }

TestHeads ==
    { [name |-> <<"c", "h", "e", "c", "k", "_", "a">>, exitcode |-> 0,
       num_paths |-> <<4, 3, 1>>, time |-> <<"0", ".", "0", "1">>,
       num_bounded_loops |-> 0],
      [name |-> <<"i", "n", "v", "a", "r", "i", "a", "n", "t", "_", "b">>, exitcode |-> 1,
       num_paths |-> <<9, 2, 7>>, time |-> <<"1", ".", "5">>,
       num_bounded_loops |-> 2] }

NumModels == {0, 1, 2}

MakeTest(h, n, has_models, models) ==
    [name |-> h.name, exitcode |-> h.exitcode, num_models |-> n,
     num_paths |-> h.num_paths, time |-> h.time,
     num_bounded_loops |-> h.num_bounded_loops,
     has_models |-> has_models, models |-> models]

ContractName(k) == <<"C">> \o DecOf(FromNat(k))

NoTest == MakeTest(CHOOSE h \in TestHeads : h.exitcode = 0, 0, FALSE, << >>)
NoPrinted == [err |-> FALSE, lines |-> << >>]

(***************************************************************************)
(* The three programs.                                                     *)
(***************************************************************************)
FmtIdle ==
    /\ value = << >>
    /\ solidity_type = << >>
    /\ var_name = << >>
    /\ result = Returned(<< >>)
    /\ fpc = "idle"

BucketIdle ==
    /\ model = << >>
    /\ printed = NoPrinted
    /\ bpc = "idle"

ReportIdle ==
    /\ rpc = "idle"
    /\ contract = << >>
    /\ ncontracts = 0
    /\ ntests = 0
    /\ test = NoTest
    /\ index = 0
    /\ out = << >>

\* format_value as a one-step program: the arguments, then the result
FmtInit ==
    /\ value \in Values
    /\ solidity_type \in Tags
    /\ var_name \in DisplayNamesF
    /\ FloatTag(solidity_type) => value \in SmallValues
    /\ result = Returned(<< >>)
    /\ fpc = "call"
    /\ BucketIdle
    /\ ReportIdle

FormatValue ==
    /\ fpc = "call"
    /\ result' = format_value(value, solidity_type, var_name)
    /\ fpc' = "ret"
    /\ UNCHANGED <<value, solidity_type, var_name, bvars, rvars>>

FmtNext == FormatValue

FmtSpec == FmtInit /\ [][FmtNext]_vars

\* lines 70-110 as a one-step program: one model, then what is printed
BucketInit ==
    /\ \E n \in 0..MaxVars : \E f \in [1..n -> NameChoices] : model = BucketModel(n, f)
    /\ printed = NoPrinted
    /\ bpc = "call"
    /\ FmtIdle
    /\ ReportIdle

PrintModel ==
    /\ bpc = "call"
    /\ printed' = ProcessModel(model)
    /\ bpc' = "ret"
    /\ UNCHANGED <<model, fvars, rvars>>

BucketNext == PrintModel

BucketSpec == BucketInit /\ [][BucketNext]_vars

(***************************************************************************)
(* analyze_halmos_output: the pass over the report.  The document is read  *)
(* as the loops reach it: each loop step takes the next item or finds the  *)
(* sequence exhausted, and test.models holds the models taken so far.      *)
(***************************************************************************)
SummaryLine == [kind |-> "summary"]
ContractLine(c) == [kind |-> "contract", name |-> c]
TestLine(t) ==
    [kind |-> "test", name |-> t.name, exitcode |-> t.exitcode,
     num_models |-> t.num_models, num_paths |-> t.num_paths, time |-> t.time,
     num_bounded_loops |-> t.num_bounded_loops]
CexHeaderLine == [kind |-> "counterexamples"]
IndexLine(n) == [kind |-> "index", i |-> n]
CexFooterLine == [kind |-> "rule"]
EndLine == [kind |-> "end"]
ExitCodeLine(code) == [kind |-> "exitcode", exitcode |-> code]

\* line 61 with `or` for `and`
HasCounterexamplesEither(t) == t.num_models > 0 \/ t.has_models

\* line 61
HasCounterexamples(t) == t.num_models > 0 /\ t.has_models

\* line 65 with the default True: model.get("is_valid", True)
IsValidByDefault(m) == ~m.has_valid \/ m.is_valid

\* line 65: model.get("is_valid", False)
IsValid(m) == m.has_valid /\ m.is_valid

Init ==
    /\ rpc = "start"
    /\ contract = << >>
    /\ ncontracts = 0
    /\ ntests = 0
    /\ test = NoTest
    /\ index = 0
    /\ out = << >>
    /\ FmtIdle
    /\ BucketIdle

\* lines 43-46
Open ==
    /\ rpc = "start"
    /\ out' = <<SummaryLine>>
    /\ rpc' = "contracts"
    /\ UNCHANGED <<contract, ncontracts, ntests, test, index, fvars, bvars>>

\* lines 48-49: the next contract of data["test_results"]
NextContract ==
    /\ rpc = "contracts"
    /\ ncontracts < MaxContracts
    /\ ncontracts' = ncontracts + 1
    /\ contract' = ContractName(ncontracts + 1)
    /\ ntests' = 0
    /\ out' = <<ContractLine(contract')>>
    /\ rpc' = "tests"
    /\ UNCHANGED <<test, index, fvars, bvars>>

\* lines 51-62: the next test of the contract
NextTest ==
    /\ rpc = "tests"
    /\ ntests < MaxTests
    /\ \E h \in TestHeads, n \in NumModels, has_models \in BOOLEAN :
          LET t == MakeTest(h, n, has_models, << >>)
          IN  /\ test' = t
              /\ out' = <<out[1], TestLine(t)>>
                           \o (IF HasCounterexamples(t) THEN <<CexHeaderLine>> ELSE << >>)
              /\ rpc' = IF HasCounterexamples(t) THEN "models" ELSE "tests"
    /\ ntests' = ntests + 1
    /\ index' = 1
    /\ UNCHANGED <<contract, ncontracts, fvars, bvars>>

\* lines 64-110: the next model of the test
NextModel ==
    /\ rpc = "models"
    /\ index <= MaxModels
    /\ \E m \in Models :
          LET r == ProcessModel(m.model)
          IN  /\ test' = [test EXCEPT !.models = Append(@, m)]
              /\ IF ~IsValid(m)
                 THEN /\ index' = index + 1
                      /\ UNCHANGED <<rpc, out>>
                 ELSE IF r.err
                 THEN \* format_value raised: nothing catches it
                      /\ out' = Append(out, IndexLine(index))
                      /\ rpc' = "raised"
                      /\ UNCHANGED index
                 ELSE /\ out' = Append(out, IndexLine(index)) \o r.lines
                      /\ index' = index + 1
                      /\ UNCHANGED rpc
    /\ UNCHANGED <<contract, ncontracts, ntests, fvars, bvars>>

\* line 112: the models are exhausted
EndModels ==
    /\ rpc = "models"
    /\ out' = Append(out, CexFooterLine)
    /\ rpc' = "tests"
    /\ UNCHANGED <<contract, ncontracts, ntests, test, index, fvars, bvars>>

\* line 51: the tests of the contract are exhausted
EndTests ==
    /\ rpc = "tests"
    /\ rpc' = "contracts"
    /\ UNCHANGED <<contract, ncontracts, ntests, test, index, out, fvars, bvars>>

\* lines 114-115: the contracts are exhausted
Finish ==
    /\ rpc = "contracts"
    /\ \E code \in {0, 1} : out' = out \o <<EndLine, ExitCodeLine(code)>>
    /\ rpc' = "done"
    /\ UNCHANGED <<contract, ncontracts, ntests, test, index, fvars, bvars>>

Next ==
    \/ Open
    \/ NextContract
    \/ NextTest
    \/ NextModel
    \/ EndModels
    \/ EndTests
    \/ Finish

Spec == Init /\ [][Next]_vars

(***************************************************************************)
(* Reading a printed number back.                                          *)
(***************************************************************************)
RECURSIVE MulAdd(_, _, _)
MulAdd(a, m, c) ==
    IF a = << >> THEN (IF c = 0 THEN << >> ELSE <<c>>)
    ELSE LET t == Head(a) * m + c
         IN  <<t % 65536>> \o MulAdd(Tail(a), m, t \div 65536)

IsDecimal(s) == s # << >> /\ \A j \in 1..Len(s) : IsDigit(s[j])

\* the magnitude a string of decimal digits denotes
RECURSIVE MagOfDecimal(_)
MagOfDecimal(s) ==
    LET n == Len(s)
        cut == IF n > 4 THEN n - 4 ELSE 0
    IN  IF n = 0 THEN << >>
        ELSE Norm(MulAdd(MagOfDecimal(SubSeq(s, 1, cut)), 10000,
                         DigitsValue(SubSeq(s, cut + 1, n), 0)))

\* s is the decimal string of an int as str() writes it: an optional minus
\* sign (never on zero) and digits without a leading zero
IsIntString(s) ==
    LET d == IF s # << >> /\ Head(s) = "-" THEN Tail(s) ELSE s
    IN  /\ IsDecimal(d)
        /\ Len(d) > 1 => Head(d) # "0"
        /\ d = <<"0">> => d = s

\* the int such a string denotes
IntOfString(s) ==
    IF Head(s) = "-" THEN [neg |-> TRUE, mag |-> MagOfDecimal(Tail(s))]
    ELSE [neg |-> FALSE, mag |-> MagOfDecimal(s)]

\* m mod 2 ** w
LowBits(m, w) ==
    Norm([j \in 1..(IF Len(m) > (w \div 16) + 1 THEN (w \div 16) + 1 ELSE Len(m)) |->
            IF j = (w \div 16) + 1 THEN m[j] % (2 ^ (w % 16)) ELSE m[j]])

\* the residue modulo 2 ** w of a signed int
Residue(n, w) ==
    IF n.neg /\ LowBits(n.mag, w) # << >>
    THEN MagSub(Pow2(w), LowBits(n.mag, w))
    ELSE LowBits(n.mag, w)

\* the widths w whose tag int<w> is the tag of the call
WidthsOf(tag) == {w \in Widths : tag = IntTag(w)}

(***************************************************************************)
(* Claims about format_value, under FmtSpec.                               *)
(***************************************************************************)
Called == fpc = "ret"

\* C1: for a tag int<w> and a raw value v < 2^w, format_value returns the
\* decimal string of the two's-complement reading of v: v - 2^w when
\* v >= 2^(w-1), otherwise v; v = 2^w - 1 gives "-1" and v = 2^(w-1) gives
\* the decimal of -(2^(w-1)).
C1_TwosComplement ==
    Called =>
      \A w \in WidthsOf(solidity_type) :
        MagLess(value, Pow2(w)) =>
          /\ ~result.err
          /\ IsIntString(result.str)
          /\ LET n == IntOfString(result.str)
             IN  IF MagLess(value, Pow2(w - 1))
                 THEN ~n.neg /\ n.mag = value
                 ELSE n.neg /\ MagAdd(n.mag, value) = Pow2(w)
          /\ value = MagSub(Pow2(w), <<1>>) => result.str = <<"-", "1">>
          /\ value = Pow2(w - 1) =>
                result.str = <<"-">> \o DecOf(Pow2(w - 1))

C1_Witness ==
    /\ Called
    /\ solidity_type = IntTag(256)
    /\ value = MagSub(Pow2(256), <<1>>)
    /\ result.str = <<"-", "1">>

\* C2: for the tag bytes4 and the display name selector, a value whose
\* 8-digit hex form is in the selector table gives the hex string followed
\* by the name in parentheses, and any other value gives just the hex string.
C2_SelectorAnnotation ==
    (Called /\ solidity_type = T_bytes4 /\ var_name = N_selector
       /\ MagLess(value, Pow2(32))) =>
      LET hex == <<"0", "x">> \o HexOf(value, 8)
          hits == {j \in 1..Len(selectors) : selectors[j].key = hex}
      IN  /\ ~result.err
          /\ \A j \in hits :
                result.str = hex \o <<" ", "(">> \o selectors[j].name \o <<")">>
          /\ hits = {} => result.str = hex

\* C4: for a tag int<w> and every raw value v, also v >= 2^w, the printed
\* number lies in [-2^(w-1), 2^(w-1) - 1] and is congruent to v modulo 2^w.
C4_ReducedModulo ==
    Called =>
      \A w \in WidthsOf(solidity_type) :
          /\ ~result.err
          /\ IsIntString(result.str)
          /\ LET n == IntOfString(result.str)
             IN  /\ IF n.neg THEN ~MagLess(Pow2(w - 1), n.mag)
                     ELSE MagLess(n.mag, Pow2(w - 1))
                 /\ Residue(n, w) = LowBits(value, w)

\* C6: for a tag that contains "uint", and for a tag that matches no rule,
\* format_value returns the decimal string of the raw value itself: no sign
\* is read into it and no width is parsed, whatever the value.
C6_UnsignedUnmodified ==
    (Called /\ solidity_type \notin {T_address, T_bytes32, T_bytes4, T_bool}
       /\ (Contains(solidity_type, S_uint) \/ ~Contains(solidity_type, S_int))) =>
      /\ ~result.err
      /\ IsIntString(result.str)
      /\ IntOfString(result.str) = [neg |-> FALSE, mag |-> value]

C6_Witness ==
    /\ Called
    /\ solidity_type = UintTag(256)
    /\ value = MagSub(Pow2(256), <<1>>)
    /\ ~result.err
    /\ Head(result.str) # "-"
    /\ Len(result.str) = 78

(***************************************************************************)
(* Claims about one model's output, under BucketSpec.                      *)
(***************************************************************************)
Processed == bpc = "ret" /\ ~printed.err

Titles == <<"Parameters", "State", "Other">>

IsHeader(l) == l.kind = "bucket"
IsEntry(l) == l.kind = "entry"

\* the title of the bucket header an entry line stands under ("" for none)
TitleOver(lines, j) ==
    LET hs == {k \in 1..(j - 1) : IsHeader(lines[k])}
    IN  IF hs = {} THEN ""
        ELSE lines[CHOOSE k \in hs : \A h \in hs : h <= k].title

\* the keys printed under a title
KeysUnder(lines, title) ==
    {lines[j].name : j \in {k \in 1..Len(lines) :
                              IsEntry(lines[k]) /\ TitleOver(lines, k) = title}}

N_maker == <<"m", "a", "k", "e", "r">>
N_taker == <<"t", "a", "k", "e", "r">>

\* the bucketing rules as stated, first match wins: [title, key]
RuleOf(d) ==
    CASE StartsWith(d, <<"p", "_">>) ->
           [title |-> "Parameters", key |-> SubSeq(d, 3, Len(d))]
      [] StartsWith(d, <<"b", "l", "o", "c", "k", ".">>) ->
           [title |-> "State", key |-> d]
      [] \/ Contains(d, N_maker) \/ Contains(d, N_taker)
         \/ Contains(d, <<"c", "r", "e", "a", "t", "o", "r">>)
         \/ Contains(d, <<"l", "i", "q", "u", "i", "d", "a", "t", "o", "r">>) ->
           [title |-> IF \/ Contains(d, N_maker \o <<".">>)
                         \/ Contains(d, N_taker \o <<".">>)
                      THEN "Parameters" ELSE "State",
            key |-> d]
      [] OTHER -> [title |-> "Other", key |-> d]

NamesOf(m) == {DisplayName(m[k]) : k \in 1..Len(m)}

\* C3: every typed value of a model goes to the bucket of the first rule
\* its display name matches: "p_" prefix -> Parameters, keyed without the
\* prefix; "block." prefix -> State; maker/taker/creator/liquidator inside ->
\* Parameters if "maker." or "taker." is inside too, else State; otherwise
\* Other.
C3_BucketRules ==
    Processed =>
      /\ \A j \in 1..Len(printed.lines) :
            IsEntry(printed.lines[j]) => TitleOver(printed.lines, j) # ""
      /\ \A t \in 1..3 :
            KeysUnder(printed.lines, Titles[t]) =
              {RuleOf(d).key : d \in {n \in NamesOf(model) : RuleOf(n).title = Titles[t]}}

C3_Witness ==
    /\ Processed
    /\ <<"p", "_">> \o N_maker \o <<".", "x">> \in NamesOf(model)
    /\ <<"b", "l", "o", "c", "k", ".">> \o N_maker \in NamesOf(model)
    /\ N_maker \o <<".", "x">> \in KeysUnder(printed.lines, "Parameters")
    /\ <<"b", "l", "o", "c", "k", ".">> \o N_maker \in KeysUnder(printed.lines, "State")

\* C8: the buckets of a model are printed in the order Parameters, State,
\* Other, an empty bucket prints nothing, and the entries of a bucket are in
\* strictly ascending order of key, whatever the order in the document.
C8_SortedBuckets ==
    bpc = "ret" =>
      LET L == printed.lines
          rank(t) == CHOOSE r \in 1..3 : Titles[r] = t
      IN  /\ L # << >> => IsHeader(L[1]) /\ IsEntry(L[Len(L)])
          /\ \A j \in 1..Len(L) : IsHeader(L[j]) \/ IsEntry(L[j])
          /\ \A j, k \in 1..Len(L) :
                (j < k /\ IsHeader(L[j]) /\ IsHeader(L[k])) =>
                   rank(L[j].title) < rank(L[k].title)
          /\ \A j \in 1..(Len(L) - 1) :
                /\ IsHeader(L[j]) => IsEntry(L[j + 1])
                /\ (IsEntry(L[j]) /\ IsEntry(L[j + 1])) =>
                      StrLess(L[j].name, L[j + 1].name)

C8_Witness ==
    /\ bpc = "ret"
    /\ Len(model) = 3
    /\ [k \in 1..3 |-> DisplayName(model[k])] =
          << <<"x">>, <<"r", "a", "n", "d", "o", "m", "F", "l", "a", "g">>,
             <<"a", "m", "o", "u", "n", "t">> >>
    /\ Len(printed.lines) = 4
    /\ [k \in 1..3 |-> printed.lines[k + 1].name] =
          << <<"a", "m", "o", "u", "n", "t">>,
             <<"r", "a", "n", "d", "o", "m", "F", "l", "a", "g">>, <<"x">> >>

\* C10: no typed value is lost: the number of entry lines printed for a
\* model equals the number of its typed values, also when two values share
\* a display name or a key.
C10_NoValueLost ==
    Processed =>
      Cardinality({j \in 1..Len(printed.lines) : IsEntry(printed.lines[j])})
          = Len(model)

(***************************************************************************)
(* Claims about the reporting pass, under Spec.                            *)
(***************************************************************************)
\* out and test describe the same test result
Reporting == rpc \in {"models", "raised"} \/ (rpc = "tests" /\ ntests >= 1)

KindsIn(lines) == {lines[j].kind : j \in 1..Len(lines)}

\* the validity flag of a model is present and true
FlagTrue(m) == m.has_valid /\ m.is_valid

\* the lines of out after position j, up to the next line that is neither a
\* bucket header nor an entry
BlockAfter(lines, j) ==
    LET stops == {k \in (j + 1)..Len(lines) : ~(IsHeader(lines[k]) \/ IsEntry(lines[k]))}
        last == IF stops = {} THEN Len(lines)
                ELSE (CHOOSE k \in stops : \A h \in stops : k <= h) - 1
    IN  SubSeq(lines, j + 1, last)

\* the tag reaches the signed rule: none of the four exact tags, "int"
\* inside, "uint" not inside
ReachesSignedRule(tag) ==
    /\ tag # <<"a", "d", "d", "r", "e", "s", "s">>
    /\ tag # <<"b", "y", "t", "e", "s", "3", "2">>
    /\ tag # <<"b", "y", "t", "e", "s", "4">>
    /\ tag # <<"b", "o", "o", "l">>
    /\ Contains(tag, <<"i", "n", "t">>)
    /\ ~Contains(tag, <<"u", "i", "n", "t">>)

\* the suffix of the tag is a well-formed bit width: "int" and then digits
WellFormedWidth(tag) ==
    /\ StartsWith(tag, <<"i", "n", "t">>)
    /\ IsDecimal(SubSeq(tag, 4, Len(tag)))

\* what is left of the tag without "int" is empty, or holds a character that
\* no decimal literal holds
NoLiteralLeft(tag) ==
    LET rest == Remove(tag, <<"i", "n", "t">>)
    IN  \/ rest = << >>
        \/ \E j \in 1..Len(rest) :
              ~IsDigit(rest[j]) /\ rest[j] \notin {"+", "-", "_", " "}

TagsOf(m) == {TypeOf(m.model[k]) : k \in 1..Len(m.model)}

\* the run ended at the model at position p: its label is the last line
\* printed and nothing more can happen
EndedAt(p) ==
    /\ rpc = "raised"
    /\ p = Len(test.models)
    /\ out[Len(out)] = IndexLine(p)
    /\ ~ENABLED Next

\* C5 as stated: a signed tag whose suffix is not a well-formed bit width
\* ("int", "int256[]", "int-8", "int 256") makes format_value fail, and the
\* run ends at that value with nothing printed after it.
C5_MalformedWidthRaises ==
    Reporting =>
      \A p \in 1..Len(test.models) :
        (/\ FlagTrue(test.models[p])
         /\ \E tag \in TagsOf(test.models[p]) :
               ReachesSignedRule(tag) /\ ~WellFormedWidth(tag)) => EndedAt(p)

\* C5 amended: the run ends so when what is left of the signed tag without
\* "int" is empty or holds a character of no decimal literal ("int",
\* "int256[]"); "int-8" and "int 256" are read as the widths -8 and 256 and
\* their values are printed.
C5_RejectedWidthRaises ==
    Reporting =>
      \A p \in 1..Len(test.models) :
        /\ (/\ FlagTrue(test.models[p])
            /\ \E tag \in TagsOf(test.models[p]) :
                  ReachesSignedRule(tag) /\ NoLiteralLeft(tag)) => EndedAt(p)
        /\ (FlagTrue(test.models[p]) /\ test.models[p].model = SignContent) =>
              /\ ~EndedAt(p)
              /\ \E j \in 1..Len(out) :
                    /\ out[j] = IndexLine(p)
                    /\ BlockAfter(out, j) =
                         << HeaderLine("Parameters"),
                            [kind |-> "entry", name |-> <<"x">>,
                             value |-> <<"-">> \o DecOf(Pow2(255)),
                             sol_type |-> <<"i", "n", "t", " ", "2", "5", "6">>],
                            HeaderLine("Other"),
                            [kind |-> "entry", name |-> <<"x">>,
                             value |-> <<"2", ".", "9", "9", "6", "0", "9", "3", "7", "5">>,
                             sol_type |-> <<"i", "n", "t", "-", "8">>] >>

C5_Witness ==
    /\ Reporting
    /\ Len(test.models) = 2
    /\ FlagTrue(test.models[1])
    /\ test.models[1].model = GoodContent
    /\ FlagTrue(test.models[2])
    /\ test.models[2].model = BracketContent
    /\ EndedAt(2)

\* C7: a test result with zero models (count 0, or no models sequence) is
\* reported with the group name, the test name and the elapsed time and with
\* no Counterexamples section; the section header is printed only for a
\* result with a positive count and a models sequence.
C7_NoCounterexampleSection ==
    /\ (Reporting /\ (test.num_models = 0 \/ ~test.has_models)) =>
          /\ Len(out) = 2
          /\ out[1].kind = "contract" /\ out[1].name = contract
          /\ out[2].kind = "test" /\ out[2].name = test.name
          /\ out[2].time = test.time
    /\ "counterexamples" \in KindsIn(out) => test.num_models > 0 /\ test.has_models

C7_Witness ==
    /\ Reporting
    /\ test.num_models = 0
    /\ test.has_models
    /\ out = <<ContractLine(contract), TestLine(test)>>

\* C9: only valid models are printed: the index labels in the output are,
\* in order, the 1-based positions of the models whose validity flag is true,
\* each followed by that model's buckets; a model whose flag is false or
\* absent contributes nothing and its values are never formatted.
C9_OnlyValidModels ==
    Reporting =>
      LET labels == {j \in 1..Len(out) : out[j].kind = "index"}
      IN  /\ {out[j].i : j \in labels} =
                {p \in 1..Len(test.models) : FlagTrue(test.models[p])}
          /\ \A j, k \in labels : j < k => out[j].i < out[k].i
          /\ \A j \in 1..Len(out) :
                (IsHeader(out[j]) \/ IsEntry(out[j])) => \E k \in labels : k < j
          /\ \A j \in labels :
                \/ EndedAt(out[j].i) /\ BlockAfter(out, j) = << >>
                \/ /\ ~ProcessModel(test.models[out[j].i].model).err
                   /\ BlockAfter(out, j) = ProcessModel(test.models[out[j].i].model).lines
          /\ rpc = "raised" => FlagTrue(test.models[Len(test.models)])

C9_Witness ==
    /\ Reporting
    /\ Len(test.models) = 2
    /\ ~test.models[1].has_valid
    /\ test.models[1].model = NoWidthContent
    /\ FlagTrue(test.models[2])
    /\ {j \in 1..Len(out) : out[j].kind = "index"} = {4}
    /\ out[4] = IndexLine(2)
    /\ Len(out) > 4

====
